---- MODULE Spec2Model ----
(***************************************************************************)
(* Expense tracker (src/main.py): five tool operations over one SQLite     *)
(* table `expenses`, plus init_db.                                         *)
(*                                                                         *)
(* Text values on which the code only tests equality or truthiness (name,  *)
(* category, subcategory) are TLA+ strings.  Values whose characters       *)
(* matter (date: BETWEEN compares bytes; note: LIKE matches characters)    *)
(* are sequences of one-character strings.  Amounts are counted in eighths *)
(* (36 is 4.5, 84 is 10.5, 1 is 0.125): these are exactly representable    *)
(* binary floating-point values and their sums are exact.                  *)
(***************************************************************************)
EXTENDS Integers, Sequences, FiniteSets, TLC

VARIABLES
    tableExists,  \* the database file holds the table `expenses`
    rows,         \* the table: rowid (column id) -> the six other columns
    seq,          \* sqlite_sequence entry of `expenses` (AUTOINCREMENT)
    used,         \* history: every id a row had in any state before the last call
    before,       \* history: the database as the last call found it
    call,         \* the tool call that completed last, with its arguments
    ret,          \* what that call returned
    pc, op, txn, lock, result, serial   \* concurrent calls (see SpecConc)

db == <<tableExists, rows, seq>>
seqv == <<used, before, call, ret>>
conc == <<pc, op, txn, lock, result, serial>>
vars == <<tableExists, rows, seq, used, before, call, ret, pc, op, txn, lock, result, serial>>

(***************************************************************************)
(* Bounds.                                                                 *)
(***************************************************************************)
MaxId == 3        \* Spec: rowids handed out
MaxIdList == 3    \* SpecList
MaxIdSum == 3     \* SpecSum
MaxCalls == 3     \* SpecConc: calls started in all

(***************************************************************************)
(* Values.                                                                 *)
(***************************************************************************)
Row(d, n, a, c, s, t) ==
    [date |-> d, name |-> n, amount |-> a, category |-> c,
     subcategory |-> s, note |-> t]

DefaultSubcategory == ""
DefaultNote == <<>>

NoRow == Row(<<>>, "", 0, "", "", <<>>)
NoCall == [op |-> "", id |-> 0, row |-> NoRow, subcategory |-> "",
           note |-> <<>>, start_date |-> <<>>, end_date |-> <<>>]
NoRet == [kind |-> "", status |-> "", id |-> 0, list |-> <<>>, text |-> <<>>]

EmptyTable == [k \in {} |-> NoRow]

Max(a, b) == IF a >= b THEN a ELSE b
Abs(a) == IF a < 0 THEN 0 - a ELSE a

MaxRowid(t) ==
    IF DOMAIN t = {} THEN 0
    ELSE CHOOSE m \in DOMAIN t : \A k \in DOMAIN t : k <= m

RECURSIVE Ascending(_)
Ascending(S) ==
    IF S = {} THEN <<>>
    ELSE LET m == CHOOSE x \in S : \A y \in S : x <= y
         IN  <<m>> \o Ascending(S \ {m})

RECURSIVE Str(_)
Str(s) == IF s = <<>> THEN "" ELSE Head(s) \o Str(Tail(s))

(***************************************************************************)
(* The SQL statements, as functions of the table.                          *)
(***************************************************************************)

\* id INTEGER PRIMARY KEY: the rowid SQLite picks for an INSERT that gives none
\* is one more than the largest rowid now in the table.
NextRowidPlain(t, s) == MaxRowid(t) + 1

\* id INTEGER PRIMARY KEY AUTOINCREMENT: one more than the largest rowid the
\* table has ever held, which sqlite_sequence records.
NextRowid(t, s) == Max(s, MaxRowid(t)) + 1

\* An INSERT whose column list leaves note out: the column takes its DEFAULT ''.
InsertRowsNoNote(t, id, r) ==
    [k \in DOMAIN t \cup {id} |-> IF k = id THEN [r EXCEPT !.note = <<>>] ELSE t[k]]

\* INSERT INTO expenses (date, name, amount, category, subcategory, note)
\* VALUES (?, ?, ?, ?, ?, ?)
InsertRows(t, id, r) == [k \in DOMAIN t \cup {id} |-> IF k = id THEN r ELSE t[k]]

\* An UPDATE that leaves the note column out of its SET list.
UpdatedRowKeepNote(old, r) == [r EXCEPT !.note = old.note]

\* UPDATE expenses SET date = ?, name = ?, amount = ?, category = ?,
\* subcategory = ?, note = ?: the row after the SET list is applied.
UpdatedRow(old, r) == r

\* INSERT OR REPLACE in place of UPDATE: the row is written whether or not the
\* id is there.
UpsertRows(t, id, r) == InsertRows(t, id, r)

\* ... WHERE id = ?
UpdateRows(t, id, r) == [k \in DOMAIN t |-> IF k = id THEN UpdatedRow(t[k], r) ELSE t[k]]

\* DELETE FROM expenses WHERE id = ?
DeleteRows(t, id) == [k \in DOMAIN t \ {id} |-> t[k]]

\* sqlite3's LIKE folds the case of ASCII letters (the letters in use here).
AsciiLower(c) ==
    CASE c = "A" -> "a"
      [] c = "B" -> "b"
      [] OTHER -> c

\* x LIKE p, no ESCAPE: % matches any run of characters, _ any one character,
\* any other character itself up to ASCII case.
RECURSIVE Like(_, _)
Like(p, x) ==
    IF p = <<>> THEN x = <<>>
    ELSE IF Head(p) = "%" THEN Like(Tail(p), x) \/ (x # <<>> /\ Like(p, Tail(x)))
    ELSE IF x = <<>> THEN FALSE
    ELSE IF Head(p) = "_" THEN Like(Tail(p), Tail(x))
    ELSE AsciiLower(Head(p)) = AsciiLower(Head(x)) /\ Like(Tail(p), Tail(x))

\* f"%{note}%"
NotePattern(note) == <<"%">> \o note \o <<"%">>

\* The clauses joined by OR.
where_any(r, subcategory, note) ==
    IF subcategory = "" /\ note = <<>> THEN TRUE
    ELSE \/ (subcategory # "" /\ r.subcategory = subcategory)
         \/ (note # <<>> /\ Like(NotePattern(note), r.note))

\* clauses: "subcategory = ?" when subcategory is truthy, "note LIKE ?" when
\* note is truthy, joined by AND; no WHERE at all when there is none.
where(r, subcategory, note) ==
    /\ (subcategory # "" => r.subcategory = subcategory)
    /\ (note # <<>> => Like(NotePattern(note), r.note))

\* dict(zip(cols, row))
AsDict(id, r) ==
    [id |-> id, date |-> r.date, name |-> r.name, amount |-> r.amount,
     category |-> r.category, subcategory |-> r.subcategory, note |-> r.note]

\* ORDER BY id ASC
OrderById(S) == Ascending(S)

\* SELECT id, date, name, amount, category, subcategory, note FROM expenses
\* [WHERE ...] ORDER BY id ASC, fetched as a list of dicts.
SelectRows(t, subcategory, note) ==
    LET ids == OrderById({k \in DOMAIN t : where(t[k], subcategory, note)})
    IN  [i \in 1..Len(ids) |-> AsDict(ids[i], t[ids[i]])]

(***************************************************************************)
(* summarize_expenses.                                                     *)
(***************************************************************************)

\* The byte of each character dates are written with here.
CharCode(c) ==
    CASE c = "-" -> 45
      [] c = "0" -> 48
      [] c = "1" -> 49
      [] c = "9" -> 57

\* a <= b for TEXT values under SQLite's BINARY collation (memcmp, the shorter
\* string first when one is a prefix of the other).
RECURSIVE TextLE(_, _)
TextLE(a, b) ==
    IF a = <<>> THEN TRUE
    ELSE IF b = <<>> THEN FALSE
    ELSE IF Head(a) = Head(b) THEN TextLE(Tail(a), Tail(b))
    ELSE CharCode(Head(a)) < CharCode(Head(b))

\* A range that leaves its two ends out.
BetweenOpen(d, lo, hi) == TextLE(lo, d) /\ TextLE(d, hi) /\ d # lo /\ d # hi

\* date BETWEEN ? AND ?
Between(d, lo, hi) == TextLE(lo, d) /\ TextLE(d, hi)

RECURSIVE SumAmounts(_, _)
SumAmounts(t, ids) ==
    IF ids = {} THEN 0
    ELSE LET k == CHOOSE x \in ids : TRUE
         IN  t[k].amount + SumAmounts(t, ids \ {k})

\* The ids of the rows the WHERE clause of the summary keeps.
InRange(t, lo, hi) == {k \in DOMAIN t : Between(t[k].date, lo, hi)}

\* SELECT category, SUM(amount) ... GROUP BY category: one result row per
\* category of the rows kept, as a function category -> sum.
GroupSums(t, lo, hi) ==
    LET kept == InRange(t, lo, hi)
    IN  [c \in {t[k].category : k \in kept} |->
            SumAmounts(t, {k \in kept : t[k].category = c})]

\* The orders fetchall() may give the groups in: GROUP BY promises none.
GroupOrders(g) ==
    LET n == Cardinality(DOMAIN g)
    IN  {o \in [1..n -> DOMAIN g] : \A i, j \in 1..n : o[i] = o[j] => i = j}

RuleWidth == 50

RECURSIVE Repeat(_, _)
Repeat(c, n) == IF n = 0 THEN "" ELSE c \o Repeat(c, n - 1)

\* "-" * 50
Rule == Repeat("-", RuleWidth)

\* Hundredths nearest to a eighths, a >= 0; a tie goes to the even neighbour,
\* as the correctly rounded conversion of an exactly represented value does.
Cents(a) ==
    LET n == 25 * a
        q == n \div 2
    IN  IF n % 2 = 0 THEN q ELSE IF q % 2 = 0 THEN q ELSE q + 1

TwoDigits(n) == IF n < 10 THEN "0" \o ToString(n) ELSE ToString(n)

\* f"{amount:.2f}"
Fmt2(a) ==
    LET c == Cents(Abs(a))
    IN  (IF a < 0 THEN "-" ELSE "") \o ToString(c \div 100) \o "." \o TwoDigits(c % 100)

\* total = amount in place of total += amount: the last group's sum alone.
total_last_only(g, order, n) == IF n = 0 THEN 0 ELSE g[order[n]]

\* total = 0; for category, amount in results: total += amount
RECURSIVE total(_, _, _)
total(g, order, n) ==
    IF n = 0 THEN 0 ELSE total(g, order, n - 1) + g[order[n]]

NoExpensesFound == "No expenses found in the specified date range."

\* The returned string, as the sequence of its lines (joined by "\n").
summary(g, order, start_date, end_date) ==
    IF Len(order) = 0 THEN <<NoExpensesFound>>
    ELSE <<"Expense Summary (" \o Str(start_date) \o " to " \o Str(end_date) \o "):", Rule>>
         \o [i \in 1..Len(order) |-> order[i] \o ": $" \o Fmt2(g[order[i]])]
         \o <<Rule, "Total: $" \o Fmt2(total(g, order, Len(order)))>>

(***************************************************************************)
(* The operations, each run to completion by one caller.                   *)
(***************************************************************************)

Returned(kind, status, id, list, text) ==
    [kind |-> kind, status |-> status, id |-> id, list |-> list, text |-> text]

Database == [exists |-> tableExists, rows |-> rows, seq |-> seq]

\* History kept at every call.
Record(c) ==
    /\ used' = used \cup DOMAIN rows
    /\ before' = Database
    /\ call' = c

\* A table created anew whether or not one is there.
CreateTableAlways ==
    /\ tableExists' = TRUE
    /\ rows' = EmptyTable
    /\ seq' = 0

\* CREATE TABLE IF NOT EXISTS expenses (...)
CreateTableIfNotExists ==
    IF tableExists THEN UNCHANGED db
    ELSE /\ tableExists' = TRUE
         /\ rows' = EmptyTable
         /\ seq' = 0

\* init_db(), run when the module is loaded: at every start of the process.
init_db ==
    /\ CreateTableIfNotExists
    /\ Record([NoCall EXCEPT !.op = "init_db"])
    /\ ret' = NoRet
    /\ UNCHANGED conc

add_expense(r, maxId) ==
    /\ tableExists
    /\ NextRowid(rows, seq) <= maxId
    /\ LET id == NextRowid(rows, seq)
       IN  /\ rows' = InsertRows(rows, id, r)
           /\ seq' = id
           /\ ret' = Returned("dict", "OK", id, <<>>, <<>>)   \* c.lastrowid
    /\ Record([NoCall EXCEPT !.op = "add_expense", !.row = r])
    /\ UNCHANGED <<tableExists, conc>>

list_expenses(subcategory, note) ==
    /\ tableExists
    /\ ret' = Returned("list", "", 0, SelectRows(rows, subcategory, note), <<>>)
    /\ Record([NoCall EXCEPT !.op = "list_expenses",
                             !.subcategory = subcategory, !.note = note])
    /\ UNCHANGED <<db, conc>>

delete_expense(id) ==
    /\ tableExists
    /\ rows' = DeleteRows(rows, id)
    /\ ret' = Returned("None", "", 0, <<>>, <<>>)
    /\ Record([NoCall EXCEPT !.op = "delete_expense", !.id = id])
    /\ UNCHANGED <<tableExists, seq, conc>>

update_expense(id, r) ==
    /\ tableExists
    /\ rows' = UpdateRows(rows, id, r)
    /\ ret' = Returned("dict", "OK", 0, <<>>, <<>>)
    /\ Record([NoCall EXCEPT !.op = "update_expense", !.id = id, !.row = r])
    /\ UNCHANGED <<tableExists, seq, conc>>

summarize_expenses(start_date, end_date) ==
    /\ tableExists
    /\ LET g == GroupSums(rows, start_date, end_date)
       IN  \E order \in GroupOrders(g) :
               ret' = Returned("str", "", 0, <<>>, summary(g, order, start_date, end_date))
    /\ Record([NoCall EXCEPT !.op = "summarize_expenses",
                             !.start_date = start_date, !.end_date = end_date])
    /\ UNCHANGED <<db, conc>>

(***************************************************************************)
(* Callers' inputs.                                                        *)
(***************************************************************************)
D09 == <<"0", "9">>
D10 == <<"1", "0">>
D9 == <<"9">>

Dates == {D09, D10, D9}

\* Spec: three argument tuples; the first leaves subcategory and note out.
InputRows ==
    {Row(D09, "tea", 36, "Food", DefaultSubcategory, DefaultNote),
     Row(D10, "bus", 84, "Travel", "x", <<"a">>),
     Row(D9, "pen", 1, "Office", "y", <<"A", "b">>)}

\* SpecList: subcategories and notes.
ListRows ==
    {Row(D09, "tea", 36, "Food", sn[1], sn[2]) :
        sn \in {<<"", <<>>>>, <<"", <<"A">>>>, <<"x", <<>>>>, <<"x", <<"A">>>>,
                <<"x", <<"a", "b">>>>, <<"y", <<"a", "b">>>>}}
FilterSubcategories == {"", "x"}
FilterNotes == {<<>>, <<"a">>, <<"A">>, <<"_">>, <<"b", "a">>}

\* SpecSum: dates, amounts and categories.
SumRows ==
    {Row(D09, "tea", 84, "Food", DefaultSubcategory, DefaultNote),
     Row(D10, "tea", 36, "Food", DefaultSubcategory, DefaultNote),
     Row(D10, "tea", 0 - 36, "Food", DefaultSubcategory, DefaultNote),
     Row(D9, "tea", 1, "Rent", DefaultSubcategory, DefaultNote),
     Row(D09, "tea", 36, "Rent", DefaultSubcategory, DefaultNote)}

(***************************************************************************)
(* Specifications.                                                         *)
(***************************************************************************)
\* Before the process first starts: no database file yet, no call in a worker
\* thread.
Init ==
    /\ tableExists = FALSE
    /\ rows = EmptyTable
    /\ seq = 0
    /\ used = {}
    /\ before = [exists |-> FALSE, rows |-> EmptyTable, seq |-> 0]
    /\ call = NoCall
    /\ ret = NoRet
    /\ pc = <<>>
    /\ op = <<>>
    /\ txn = <<>>
    /\ lock = ""
    /\ result = <<>>
    /\ serial = <<>>

Next ==
    \/ init_db
    \/ \E r \in InputRows : add_expense(r, MaxId)
    \/ list_expenses("", <<>>)
    \/ \E id \in 1..(MaxId + 1) : delete_expense(id)
    \/ \E id \in 1..(MaxId + 1), r \in InputRows : update_expense(id, r)
    \/ \E a \in Dates, b \in Dates : summarize_expenses(a, b)

Spec == Init /\ [][Next]_vars

NextList ==
    \/ init_db
    \/ \E r \in ListRows : add_expense(r, MaxIdList)
    \/ \E s \in FilterSubcategories, n \in FilterNotes : list_expenses(s, n)
    \/ \E id \in 1..(MaxIdList + 1) : delete_expense(id)
    \/ \E id \in 1..(MaxIdList + 1), r \in ListRows : update_expense(id, r)
    \/ summarize_expenses(D09, D9)

SpecList == Init /\ [][NextList]_vars

NextSum ==
    \/ init_db
    \/ \E r \in SumRows : add_expense(r, MaxIdSum)
    \/ list_expenses("", <<>>)
    \/ \E id \in 1..(MaxIdSum + 1) : delete_expense(id)
    \/ \E id \in 1..(MaxIdSum + 1), r \in SumRows : update_expense(id, r)
    \/ \E a \in Dates, b \in Dates : summarize_expenses(a, b)

SpecSum == Init /\ [][NextSum]_vars

(***************************************************************************)
(* Concurrent calls.  Each call runs its _op in a worker thread             *)
(* (anyio.to_thread.run_sync) on a connection of its own.  A write statement *)
(* opens a transaction and takes the database's write lock, which the        *)
(* commit gives back; a second writer waits for it, and gets "database is    *)
(* locked" when its timeout runs out.  A SELECT holds a read lock from its    *)
(* first row to its last, and a commit waits for the readers to finish,      *)
(* likewise until its timeout runs out.                                      *)
(***************************************************************************)
Workers == {"w1", "w2", "w3"}

ConcRows ==
    {Row(D09, "tea", 36, "Food", DefaultSubcategory, DefaultNote),
     Row(D10, "bus", 84, "Travel", "x", <<"a">>)}

ConcCalls ==
    {[NoCall EXCEPT !.op = "add_expense", !.row = r] : r \in ConcRows}
    \cup {[NoCall EXCEPT !.op = "update_expense", !.id = i, !.row = r] : i \in 1..2, r \in ConcRows}
    \cup {[NoCall EXCEPT !.op = "delete_expense", !.id = i] : i \in 1..2}
    \cup {[NoCall EXCEPT !.op = "list_expenses"]}

Writes == {"add_expense", "update_expense", "delete_expense"}

NoTxn == [rows |-> EmptyTable, seq |-> 0, lastrowid |-> 0]

\* c.execute(...) of the call c on the table t with sqlite_sequence s: the
\* table and sequence the transaction holds, and the cursor's lastrowid.
Statement(c, t, s) ==
    CASE c.op = "add_expense" ->
             LET id == NextRowid(t, s)
             IN  [rows |-> InsertRows(t, id, c.row), seq |-> id, lastrowid |-> id]
      [] c.op = "update_expense" ->
             [rows |-> UpdateRows(t, c.id, c.row), seq |-> s, lastrowid |-> 0]
      [] c.op = "delete_expense" ->
             [rows |-> DeleteRows(t, c.id), seq |-> s, lastrowid |-> 0]

\* The largest id in the table when the call returns (SELECT max(id)).
LastRowidFromTable(w) == MaxRowid(rows)

\* c.lastrowid: the rowid of the last INSERT through this call's own cursor.
LastRowid(w) == txn[w].lastrowid

\* What the call returns once its statement has run.
ReturnValue(c, lastrowid) ==
    CASE c.op = "add_expense" -> Returned("dict", "OK", lastrowid, <<>>, <<>>)
      [] c.op = "update_expense" -> Returned("dict", "OK", 0, <<>>, <<>>)
      [] c.op = "delete_expense" -> Returned("None", "", 0, <<>>, <<>>)

Raised == Returned("raise", "database is locked", 0, <<>>, <<>>)

\* The process has started on a new database file: init_db has run.
InitConc ==
    /\ tableExists = TRUE
    /\ rows = EmptyTable
    /\ seq = 0
    /\ used = {}
    /\ before = [exists |-> FALSE, rows |-> EmptyTable, seq |-> 0]
    /\ call = NoCall
    /\ ret = NoRet
    /\ pc = [w \in Workers |-> "idle"]
    /\ op = [w \in Workers |-> NoCall]
    /\ txn = [w \in Workers |-> NoTxn]
    /\ lock = ""
    /\ result = [w \in Workers |-> NoRet]
    /\ serial = [rows |-> EmptyTable, seq |-> 0, started |-> 0,
                 expect |-> [w \in Workers |-> NoRet], ids |-> <<>>]

\* run_sync hands _op to a worker thread; sqlite3.connect(BD_PATH).
Begin(w, c) ==
    /\ pc[w] = "idle"
    /\ serial.started < MaxCalls
    /\ pc' = [pc EXCEPT ![w] = "connected"]
    /\ op' = [op EXCEPT ![w] = c]
    /\ txn' = [txn EXCEPT ![w] = NoTxn]
    /\ serial' = [serial EXCEPT !.started = @ + 1]
    /\ UNCHANGED <<db, seqv, lock, result>>

\* c.execute of INSERT, UPDATE or DELETE: the write lock is taken and the
\* statement runs on the committed table, inside the call's transaction.
Execute(w) ==
    /\ pc[w] = "connected"
    /\ op[w].op \in Writes
    /\ lock = ""
    /\ lock' = w
    /\ txn' = [txn EXCEPT ![w] = Statement(op[w], rows, seq)]
    /\ pc' = [pc EXCEPT ![w] = "executed"]
    /\ UNCHANGED <<db, seqv, op, result, serial>>

\* c.execute while another connection holds the write lock for longer than the
\* timeout: sqlite3.OperationalError, which the call passes on.
Busy(w) ==
    /\ pc[w] = "connected"
    /\ op[w].op \in Writes
    /\ lock # ""
    /\ pc' = [pc EXCEPT ![w] = "done"]
    /\ result' = [result EXCEPT ![w] = Raised]
    /\ serial' = [serial EXCEPT !.expect[w] = Raised]
    /\ UNCHANGED <<db, seqv, op, txn, lock>>

\* conn.commit() while a SELECT of another connection is reading, for longer
\* than the timeout: sqlite3.OperationalError; leaving the with block on an
\* exception rolls the transaction back.
CommitBusy(w) ==
    /\ pc[w] = "executed"
    /\ \E v \in Workers : pc[v] = "reading"
    /\ lock' = ""
    /\ pc' = [pc EXCEPT ![w] = "done"]
    /\ txn' = [txn EXCEPT ![w] = NoTxn]
    /\ result' = [result EXCEPT ![w] = Raised]
    /\ serial' = [serial EXCEPT !.expect[w] = Raised]
    /\ UNCHANGED <<db, seqv, op>>

\* conn.commit(): the transaction's table replaces the committed one and the
\* lock is given back.  History: the same call applied to the serial table.
Commit(w) ==
    /\ pc[w] = "executed"
    /\ \A v \in Workers : pc[v] # "reading"
    /\ rows' = txn[w].rows
    /\ seq' = txn[w].seq
    /\ lock' = ""
    /\ pc' = [pc EXCEPT ![w] = "committed"]
    /\ LET st == Statement(op[w], serial.rows, serial.seq)
       IN  serial' = [serial EXCEPT !.rows = st.rows, !.seq = st.seq,
                                    !.expect[w] = ReturnValue(op[w], st.lastrowid)]
    /\ UNCHANGED <<tableExists, seqv, op, txn, result>>

\* return {"status": "OK", "id": c.lastrowid} and the like.  History: the ids
\* add_expense calls have returned.
Return(w) ==
    /\ pc[w] = "committed"
    /\ pc' = [pc EXCEPT ![w] = "done"]
    /\ LET r == ReturnValue(op[w], LastRowid(w))
       IN  /\ result' = [result EXCEPT ![w] = r]
           /\ serial' = IF op[w].op = "add_expense"
                        THEN [serial EXCEPT !.ids = Append(@, r.id)]
                        ELSE serial
    /\ UNCHANGED <<db, seqv, op, txn, lock>>

\* list_expenses: conn.execute(SELECT ...) starts reading the committed table.
Select(w) ==
    /\ pc[w] = "connected"
    /\ op[w].op = "list_expenses"
    /\ pc' = [pc EXCEPT ![w] = "reading"]
    /\ UNCHANGED <<db, seqv, op, txn, lock, result, serial>>

\* cur.fetchall() has the last row; the list of dicts is returned.  History:
\* the same read of the serial table.
Fetch(w) ==
    /\ pc[w] = "reading"
    /\ pc' = [pc EXCEPT ![w] = "done"]
    /\ LET r == Returned("list", "", 0, SelectRows(rows, op[w].subcategory, op[w].note), <<>>)
       IN  /\ result' = [result EXCEPT ![w] = r]
           /\ serial' = [serial EXCEPT
                  !.expect[w] = Returned("list", "", 0,
                      SelectRows(serial.rows, op[w].subcategory, op[w].note), <<>>)]
    /\ UNCHANGED <<db, seqv, op, txn, lock>>

\* The awaiting caller has the result; the thread goes back to the pool.
Finish(w) ==
    /\ pc[w] = "done"
    /\ pc' = [pc EXCEPT ![w] = "idle"]
    /\ op' = [op EXCEPT ![w] = NoCall]
    /\ txn' = [txn EXCEPT ![w] = NoTxn]
    /\ result' = [result EXCEPT ![w] = NoRet]
    /\ serial' = [serial EXCEPT !.expect[w] = NoRet]
    /\ UNCHANGED <<db, seqv, lock>>

NextConc ==
    \E w \in Workers :
        \/ \E c \in ConcCalls : Begin(w, c)
        \/ Execute(w)
        \/ Busy(w)
        \/ CommitBusy(w)
        \/ Commit(w)
        \/ Return(w)
        \/ Select(w)
        \/ Fetch(w)
        \/ Finish(w)

SpecConc == InitConc /\ [][NextConc]_vars

(***************************************************************************)
(* Properties of the operations.                                           *)
(***************************************************************************)
ListedIds(l) == {l[i].id : i \in 1..Len(l)}

\* What list_expenses() with no filter returns in a given table.
Listing(t) == SelectRows(t, "", <<>>)

SameFields(d, r) ==
    /\ d.date = r.date
    /\ d.name = r.name
    /\ d.amount = r.amount
    /\ d.category = r.category
    /\ d.subcategory = r.subcategory
    /\ d.note = r.note

\* n occurs in x, character for character.
Contains(x, n) == \E i \in 0..(Len(x) - Len(n)) : SubSeq(x, i + 1, i + Len(n)) = n

\* C1: the id add_expense returns is the id of no row that has existed before
\* the call, deleted rows included, and update_expense leaves every row under
\* the id it had.
C1_IdsNeverReused ==
    /\ call.op = "add_expense" =>
           /\ ret.id \notin used
           /\ ret.id \in DOMAIN rows
    /\ call.op = "update_expense" =>
           /\ DOMAIN rows = DOMAIN before.rows
           /\ \A k \in DOMAIN rows \ {call.id} : rows[k] = before.rows[k]

\* An add_expense right after the row with the highest id was deleted.
C1_Witness ==
    /\ call.op = "add_expense"
    /\ ret.id > 1
    /\ (ret.id - 1) \in used
    /\ (ret.id - 1) \notin DOMAIN before.rows
    /\ \A k \in DOMAIN before.rows : k < ret.id - 1

\* C2: update_expense and delete_expense with an id no row has return normally
\* ({status: OK}, None) and leave the table as it was.
C2_MissingIdNoOp ==
    (call.op \in {"update_expense", "delete_expense"} /\ call.id \notin DOMAIN before.rows) =>
        /\ rows = before.rows
        /\ seq = before.seq
        /\ call.op = "update_expense" => (ret.kind = "dict" /\ ret.status = "OK")
        /\ call.op = "delete_expense" => ret.kind = "None"

\* update_expense with an id no row has, on a table of two rows or more.
C2_Witness ==
    /\ call.op = "update_expense"
    /\ call.id \notin DOMAIN before.rows
    /\ Cardinality(DOMAIN before.rows) >= 2

\* C3: list_expenses(note=n), n not empty, returns exactly the rows whose note
\* contains n character for character (case kept, no wildcard); with an empty
\* n no row is left out for its note.
C3_NoteFilterLiteral ==
    (call.op = "list_expenses" /\ call.subcategory = "") =>
        ListedIds(ret.list) =
            {k \in DOMAIN rows : call.note = <<>> \/ Contains(rows[k].note, call.note)}

Ascends(l) == \A i \in 1..Len(l), j \in 1..Len(l) : i < j => l[i].id < l[j].id

StoredAsListed(l) ==
    \A i \in 1..Len(l) : l[i].id \in DOMAIN rows /\ SameFields(l[i], rows[l[i].id])

\* The row with id k is one that list_expenses(note=n) returns.
PassesNote(k, n) == k \in ListedIds(SelectRows(rows, "", n))

\* C4 as stated: for every subcategory s, the empty one too,
\* list_expenses(subcategory=s) returns all and only the rows whose subcategory
\* is s; with no filter every row; with both filters only rows passing both;
\* always by ascending id.
C4_AsStated ==
    call.op = "list_expenses" =>
        /\ call.note = <<>> =>
               ListedIds(ret.list) = {k \in DOMAIN rows : rows[k].subcategory = call.subcategory}
        /\ (call.note = <<>> /\ call.subcategory = "") => ListedIds(ret.list) = DOMAIN rows
        /\ (call.note # <<>> /\ call.subcategory # "") =>
               \A k \in ListedIds(ret.list) :
                   rows[k].subcategory = call.subcategory /\ PassesNote(k, call.note)
        /\ Ascends(ret.list)
        /\ StoredAsListed(ret.list)

\* C4, amended: for every subcategory s other than the empty string,
\* list_expenses(subcategory=s) returns all and only the rows whose subcategory
\* is s; with both filters empty every row; with both filters given only rows
\* whose subcategory is s and which list_expenses(note=n) returns; always by
\* strictly ascending id.
C4_SubcategoryFilter ==
    call.op = "list_expenses" =>
        /\ (call.note = <<>> /\ call.subcategory # "") =>
               ListedIds(ret.list) = {k \in DOMAIN rows : rows[k].subcategory = call.subcategory}
        /\ (call.note = <<>> /\ call.subcategory = "") => ListedIds(ret.list) = DOMAIN rows
        /\ (call.note # <<>> /\ call.subcategory # "") =>
               \A k \in ListedIds(ret.list) :
                   rows[k].subcategory = call.subcategory /\ PassesNote(k, call.note)
        /\ Ascends(ret.list)
        /\ StoredAsListed(ret.list)

\* Both filters given: a row kept, one dropped for its subcategory, one dropped
\* for its note.
C4_Witness ==
    /\ call.op = "list_expenses"
    /\ call.subcategory # ""
    /\ call.note # <<>>
    /\ Len(ret.list) = 1
    /\ \E k \in DOMAIN rows :
           rows[k].subcategory # call.subcategory /\ PassesNote(k, call.note)
    /\ \E k \in DOMAIN rows :
           rows[k].subcategory = call.subcategory /\ ~PassesNote(k, call.note)

\* C5: after add_expense returns {status: OK, id: i}, list_expenses() holds
\* exactly one record with id i, its six fields are the arguments, and every
\* record listed before the call is listed unchanged.
C5_AddThenList ==
    call.op = "add_expense" =>
        LET l == Listing(rows)
            was == Listing(before.rows)
        IN  /\ ret.status = "OK"
            /\ Cardinality({i \in 1..Len(l) : l[i].id = ret.id}) = 1
            /\ \A i \in 1..Len(l) : l[i].id = ret.id => SameFields(l[i], call.row)
            /\ \A j \in 1..Len(was) : \E i \in 1..Len(l) : l[i] = was[j]
            /\ Len(l) = Len(was) + 1

\* A third row is added, with a subcategory and a note.
C5_Witness ==
    /\ call.op = "add_expense"
    /\ call.row.note # <<>>
    /\ call.row.subcategory # ""
    /\ Len(Listing(before.rows)) >= 2

\* C6: update_expense(i, new values) on an id add_expense returned leaves
\* exactly one record with id i in list_expenses(), its six fields the new
\* values (the defaults '' where subcategory and note were left out), and every
\* other record as it was.
C6_UpdateReplaces ==
    (call.op = "update_expense" /\ call.id \in DOMAIN before.rows) =>
        LET l == Listing(rows)
        IN  /\ ret.status = "OK"
            /\ Cardinality({i \in 1..Len(l) : l[i].id = call.id}) = 1
            /\ \A i \in 1..Len(l) : l[i].id = call.id => SameFields(l[i], call.row)
            /\ DOMAIN rows = DOMAIN before.rows
            /\ \A k \in DOMAIN rows \ {call.id} : rows[k] = before.rows[k]

\* A row with a subcategory and a note is updated with both left out.
C6_Witness ==
    /\ call.op = "update_expense"
    /\ call.id \in DOMAIN before.rows
    /\ before.rows[call.id].subcategory # ""
    /\ before.rows[call.id].note # <<>>
    /\ call.row.subcategory = DefaultSubcategory
    /\ call.row.note = DefaultNote
    /\ Cardinality(DOMAIN rows) >= 2

\* C9: init_db on a database that has the table leaves the table, its rows and
\* sqlite_sequence as they were, and the id the next add_expense takes is one
\* no row has had.
C9_InitDbKeeps ==
    call.op = "init_db" =>
        /\ tableExists
        /\ before.exists => (rows = before.rows /\ seq = before.seq)
        /\ NextRowid(rows, seq) \notin (used \cup DOMAIN rows)

\* init_db runs again after rows were added and the one with the highest id
\* deleted.
C9_Witness ==
    /\ call.op = "init_db"
    /\ before.exists
    /\ rows # EmptyTable
    /\ \E k \in used : \A j \in DOMAIN rows : j < k

\* The ids of the rows dated within [start_date, end_date] of the last call.
Dated == {k \in DOMAIN rows :
             TextLE(call.start_date, rows[k].date) /\ TextLE(rows[k].date, call.end_date)}

CategoriesOf(ids) == {rows[k].category : k \in ids}

CategoryLine(c, ids) ==
    c \o ": $" \o Fmt2(SumAmounts(rows, {k \in ids : rows[k].category = c}))

\* The lines between the two rules.
CategoryLines(text) == IF Len(text) < 5 THEN <<>> ELSE SubSeq(text, 3, Len(text) - 2)

RECURSIVE SumOfCategorySums(_, _)
SumOfCategorySums(ids, cats) ==
    IF cats = {} THEN 0
    ELSE LET c == CHOOSE x \in cats : TRUE
         IN  SumAmounts(rows, {k \in ids : rows[k].category = c})
                 + SumOfCategorySums(ids, cats \ {c})

\* C7: summarize_expenses(start_date, end_date) counts exactly the rows whose
\* date d has start_date <= d <= end_date as strings, both ends included: the
\* category lines are those of these rows with their sums, and the total is
\* their sum; rows dated outside add to neither.
C7_InclusiveRange ==
    (call.op = "summarize_expenses" /\ Dated # {}) =>
        LET lines == CategoryLines(ret.text)
        IN  /\ {lines[i] : i \in 1..Len(lines)} =
                   {CategoryLine(c, Dated) : c \in CategoriesOf(Dated)}
            /\ ret.text[Len(ret.text)] = "Total: $" \o Fmt2(SumAmounts(rows, Dated))

\* The range [09, 10] over rows dated 09 (10.5), 10 (4.5) and 9: both ends are
\* counted and the row dated 9 is not.
C7_Witness ==
    /\ call.op = "summarize_expenses"
    /\ call.start_date = D09
    /\ call.end_date = D10
    /\ \E k \in DOMAIN rows : rows[k].date = D9
    /\ ret.text = <<"Expense Summary (09 to 10):", Rule, "Food: $15.00", Rule, "Total: $15.00">>

\* C8: summarize_expenses returns "No expenses found in the specified date
\* range." exactly when no row is dated in the range; otherwise one line for
\* each category of the rows in range, with the sum of that category, and a
\* last line Total with the sum of all rows in range, which is the sum of the
\* category sums, also when that is zero.
C8_SummaryShape ==
    call.op = "summarize_expenses" =>
        LET lines == CategoryLines(ret.text)
        IN  /\ (ret.text = <<NoExpensesFound>>) <=> (Dated = {})
            /\ Dated # {} =>
                   /\ Len(ret.text) = Cardinality(CategoriesOf(Dated)) + 4
                   /\ \A c \in CategoriesOf(Dated) :
                          Cardinality({i \in 1..Len(lines) : lines[i] = CategoryLine(c, Dated)}) = 1
                   /\ ret.text[Len(ret.text)] =
                          "Total: $" \o Fmt2(SumOfCategorySums(Dated, CategoriesOf(Dated)))
                   /\ SumOfCategorySums(Dated, CategoriesOf(Dated)) = SumAmounts(rows, Dated)

\* Two categories in range, one of them with amounts that sum to zero.
C8_Witness ==
    /\ call.op = "summarize_expenses"
    /\ Cardinality(Dated) = 3
    /\ Len(ret.text) = 6
    /\ ret.text[3] = "Food: $0.00"
    /\ ret.text[6] = "Total: $0.12"

\* C10: concurrent calls take effect one at a time: the committed table is the
\* table of the calls applied one after another in the order of their commits,
\* every call returns what it returns in that serial order (a list_expenses its
\* listing, an add_expense the id of the row it inserted itself), every listed
\* record carries the six values of one single write, and the ids add_expense
\* calls return are pairwise distinct.
C10_Serializable ==
    /\ rows = serial.rows
    /\ seq = serial.seq
    /\ \A w \in Workers : pc[w] = "done" => result[w] = serial.expect[w]
    /\ \A w \in Workers :
           (pc[w] = "done" /\ op[w].op = "list_expenses") =>
               \A i \in 1..Len(result[w].list) :
                   \E r \in ConcRows : SameFields(result[w].list[i], r)
    /\ \A i \in 1..Len(serial.ids), j \in 1..Len(serial.ids) :
           i # j => serial.ids[i] # serial.ids[j]

\* Two add_expense calls and a list_expenses in flight together: the second
\* add has committed while the first, which committed before it, has not yet
\* returned, and the list has read one row.
C10_Witness ==
    \E a \in Workers, b \in Workers, c \in Workers :
        /\ op[a].op = "add_expense" /\ pc[a] = "committed" /\ txn[a].lastrowid = 1
        /\ op[b].op = "add_expense" /\ pc[b] = "committed" /\ txn[b].lastrowid = 2
        /\ op[c].op = "list_expenses" /\ pc[c] = "done"
        /\ Len(result[c].list) = 1

====
